---- MODULE Spec2Model ----
(***************************************************************************)
(* Model of the Task list view (frontend/src/api/user.js, the Vue          *)
(* component named 'Task'), of its status filters, and of validatePath    *)
(* (frontend/src/utils/validate.js).                                       *)
(*                                                                         *)
(* Time is counted in seconds.  A promise chain `.then(f).finally(g)` is   *)
(* run as one step when its request settles: between f and g no timer or  *)
(* UI event can run.                                                       *)
(***************************************************************************)
EXTENDS Integers, Sequences, FiniteSets, TLC

\* ------------------------------------------------------------------ bounds
MaxTime == 6        \* the clock stops here
MaxReqs == 3        \* requests (list and delete) issued in one behaviour
MaxInFlight == 2    \* list requests in flight at once
MaxLen == 4         \* length of the paths given to validatePath
MaxCode == 60       \* status codes range over -MaxCode..MaxCode

\* ------------------------------------------------------- program constants
Interval == 3       \* window.setInterval(this.getList, 3 * 1000)
Limit == 25         \* listQuery.limit

NoTimer == -1       \* this.polling when no interval is armed

UUIDs == {"t1", "t2"}
Row(u) == [uuid |-> u]

\* The arrays a list response may carry as payload.entry, and its payload.count.
Entries == {<< >>, <<Row("t1")>>, <<Row("t1"), Row("t2")>>}
Counts == {0, 26}

\* null / a value, for the field `list` (null until the first response).
Null == << >>
Some(x) == <<x>>

NoRow == [uuid |-> ""]

VARIABLES
    phase,                \* "new" (data() ran), "alive" (created ran), "destroyed"
    now,                  \* the clock, in seconds since construction
    polling,              \* this.polling: time of the next timer callback, or NoTimer
    list, total, listLoading, listQuery,
    selectedData, deleteDialogVisible, deleteDialogLoading,
    listReqs,             \* getTaskList requests in flight
    delReqs,              \* deleteTask requests in flight
    nextId,               \* requests are numbered in the order they are issued
    messages,             \* number of 'Task Deleted' notifications shown
    issued,               \* the latest getList call: who made it, when, for which page
    settled,              \* the latest request to settle, and how
    shown,                \* the latest successful list response
    clicked,              \* the row of the latest handleDelete(row)
    status, tagType, label, \* input and outputs of the two status filters
    path, pathOk,         \* input and output of validatePath
    pc                    \* position of the pure-function runs

viewVars == <<phase, now, polling, list, total, listLoading, listQuery,
              selectedData, deleteDialogVisible, deleteDialogLoading,
              listReqs, delReqs, nextId, messages, issued, settled, shown, clicked>>
pureVars == <<status, tagType, label, path, pathOk, pc>>
vars == <<viewVars, pureVars>>

Undefined == "undefined"

NoIssue == [id |-> 0, page |-> 0, at |-> 0, by |-> "none"]
NoSettle == [op |-> "none", id |-> 0, page |-> 0, uuid |-> "", ok |-> FALSE,
             entry |-> << >>, count |-> 0, phase |-> "new"]
NoShown == [id |-> 0, prev |-> 0, page |-> 0, entry |-> << >>, count |-> 0]

\* data(): the component's initial fields.
ViewInit ==
    /\ phase = "new"
    /\ now = 0
    /\ polling = NoTimer
    /\ list = Null
    /\ total = 0
    /\ listLoading = TRUE
    /\ listQuery = [page |-> 1, limit |-> Limit]
    /\ selectedData = NoRow
    /\ deleteDialogVisible = FALSE
    /\ deleteDialogLoading = FALSE
    /\ listReqs = {}
    /\ delReqs = {}
    /\ nextId = 1
    /\ messages = 0
    /\ issued = NoIssue
    /\ settled = NoSettle
    /\ shown = NoShown
    /\ clicked = NoRow

PureIdle ==
    /\ status = 0
    /\ tagType = Undefined
    /\ label = Undefined
    /\ path = << >>
    /\ pathOk = FALSE
    /\ pc = "off"

Init == ViewInit /\ PureIdle

\* ------------------------------------------------------------ getList
\* (a getList that raises the flag on every call, as the loading idiom does)
GetListLoading_SetsTrue(cur) == TRUE

\* The fields getList() itself assigns when it is called: none.  The flag
\* listLoading is set by data() and cleared by the finally callback only.
GetListLoading(cur) == cur

\* getList(): getTaskList(this.listQuery.page) is sent; the callbacks run when
\* it settles (SettleList).  `page` is the page the call reads.
GetList(by, page) ==
    /\ nextId <= MaxReqs
    /\ Cardinality(listReqs) < MaxInFlight
    /\ listReqs' = listReqs \cup {[id |-> nextId, page |-> page]}
    /\ nextId' = nextId + 1
    /\ listLoading' = GetListLoading(listLoading)
    /\ issued' = [id |-> nextId, page |-> page, at |-> now, by |-> by]

\* created(): arm the interval, then fetch once.
Created ==
    /\ phase = "new"
    /\ phase' = "alive"
    /\ polling' = now + Interval
    /\ GetList("created", listQuery.page)
    /\ UNCHANGED <<now, list, total, listQuery, selectedData, deleteDialogVisible,
                   deleteDialogLoading, delReqs, messages, settled, shown, clicked>>
    /\ UNCHANGED pureVars

\* The interval's callback: getList, every Interval seconds while armed.
Tick ==
    /\ polling # NoTimer
    /\ now = polling
    /\ polling' = polling + Interval
    /\ GetList("timer", listQuery.page)
    /\ UNCHANGED <<phase, now, list, total, listQuery, selectedData,
                   deleteDialogVisible, deleteDialogLoading, delReqs, messages,
                   settled, shown, clicked>>
    /\ UNCHANGED pureVars

\* One second passes; a due timer callback runs before the clock moves on.
Advance ==
    /\ phase # "new"
    /\ now < MaxTime
    /\ polling = NoTimer \/ now < polling
    /\ now' = now + 1
    /\ UNCHANGED <<phase, polling, list, total, listLoading, listQuery, selectedData,
                   deleteDialogVisible, deleteDialogLoading, listReqs, delReqs,
                   nextId, messages, issued, settled, shown, clicked>>
    /\ UNCHANGED pureVars

\* (a teardown that forgets clearInterval)
BeforeDestroy_KeepsTimer ==
    /\ phase = "alive"
    /\ phase' = "destroyed"
    /\ UNCHANGED <<now, polling, list, total, listLoading, listQuery, selectedData,
                   deleteDialogVisible, deleteDialogLoading, listReqs, delReqs,
                   nextId, messages, issued, settled, shown, clicked>>
    /\ UNCHANGED pureVars

\* beforeDestroy(): clearInterval(this.polling).
BeforeDestroy ==
    /\ phase = "alive"
    /\ phase' = "destroyed"
    /\ polling' = NoTimer
    /\ UNCHANGED <<now, list, total, listLoading, listQuery, selectedData,
                   deleteDialogVisible, deleteDialogLoading, listReqs, delReqs,
                   nextId, messages, issued, settled, shown, clicked>>
    /\ UNCHANGED pureVars

PageCount(n) == (n + Limit - 1) \div Limit

\* <pagination v-show="total>0" :page.sync="listQuery.page" @pagination="getList">:
\* the user picks another page; the page is synced, then getList runs.
Pagination(p) ==
    /\ phase = "alive"
    /\ total > 0
    /\ p \in 1..PageCount(total)
    /\ p # listQuery.page
    /\ listQuery' = [listQuery EXCEPT !.page = p]
    /\ GetList("pagination", p)
    /\ UNCHANGED <<phase, now, polling, list, total, selectedData,
                   deleteDialogVisible, deleteDialogLoading, delReqs, messages,
                   settled, shown, clicked>>
    /\ UNCHANGED pureVars

\* (total taken from the page's length instead of payload.count)
GetListThen_CountsEntries(cur, req, entry, count, latest) == <<Some(entry), Len(entry)>>

\* (a sequenced getList: a response older than the one displayed is dropped)
GetListThen_DropsStale(cur, req, entry, count, latest) ==
    IF req.id > latest THEN <<Some(entry), count>> ELSE cur

\* The then-callback of getList: what list and total become on a response.
\* cur = <<list, total>>; req is the request that settled; latest is the id of
\* the response now displayed.
GetListThen(cur, req, entry, count, latest) == <<Some(entry), count>>

\* (late responses discarded once the view is gone)
GetListFinally_IfAlive(cur, alive) == IF alive THEN FALSE ELSE cur

\* The finally-callback of getList: what listLoading becomes; alive tells
\* whether the view still exists.
GetListFinally(cur, alive) == FALSE

\* A list request settles, in any phase of the view: `ok` with a payload, or not.
SettleList(r, ok, entry, count) ==
    /\ r \in listReqs
    /\ listReqs' = listReqs \ {r}
    /\ IF ok
         THEN /\ list' = GetListThen(<<list, total>>, r, entry, count, shown.id)[1]
              /\ total' = GetListThen(<<list, total>>, r, entry, count, shown.id)[2]
              /\ shown' = [id |-> r.id, prev |-> shown.id, page |-> r.page,
                           entry |-> entry, count |-> count]
         ELSE UNCHANGED <<list, total, shown>>
    /\ listLoading' = GetListFinally(listLoading, phase # "destroyed")
    /\ settled' = [op |-> "list", id |-> r.id, page |-> r.page, uuid |-> "",
                   ok |-> ok, entry |-> IF ok THEN entry ELSE << >>,
                   count |-> IF ok THEN count ELSE 0, phase |-> phase]
    /\ UNCHANGED <<phase, now, polling, listQuery, selectedData, deleteDialogVisible,
                   deleteDialogLoading, delReqs, nextId, messages, issued, clicked>>
    /\ UNCHANGED pureVars

ListOk == \E r \in listReqs, e \in Entries, c \in Counts : SettleList(r, TRUE, e, c)
ListFail == \E r \in listReqs : SettleList(r, FALSE, << >>, 0)

\* The rows the table shows: the entries of `list`.
Rows == IF list = Null THEN {} ELSE {list[1][i] : i \in 1..Len(list[1])}

\* ------------------------------------------------------------ delete flow
\* handleDelete(row): selectedData = Object.assign({}, row); open the dialog.
\* The dialog is modal: a row's Delete button is clickable only while it is closed.
HandleDelete(row) ==
    /\ phase = "alive"
    /\ ~deleteDialogVisible
    /\ row \in Rows
    /\ selectedData' = row
    /\ deleteDialogVisible' = TRUE
    /\ clicked' = row
    /\ UNCHANGED <<phase, now, polling, list, total, listLoading, listQuery,
                   deleteDialogLoading, listReqs, delReqs, nextId, messages,
                   issued, settled, shown>>
    /\ UNCHANGED pureVars

\* The dialog's Cancel button: deleteDialogVisible = false.
Cancel ==
    /\ phase = "alive"
    /\ deleteDialogVisible
    /\ deleteDialogVisible' = FALSE
    /\ UNCHANGED <<phase, now, polling, list, total, listLoading, listQuery,
                   selectedData, deleteDialogLoading, listReqs, delReqs, nextId,
                   messages, issued, settled, shown, clicked>>
    /\ UNCHANGED pureVars

\* The uuid deleteTask() sends: this.selectedData.uuid.
DeleteTaskUuid(sel, rows) == sel.uuid

\* deleteTask(): the dialog's Delete button, disabled while :loading is set.
DeleteTask ==
    /\ phase = "alive"
    /\ deleteDialogVisible
    /\ ~deleteDialogLoading
    /\ nextId <= MaxReqs
    /\ deleteDialogLoading' = TRUE
    /\ delReqs' = delReqs \cup {[id |-> nextId, uuid |-> DeleteTaskUuid(selectedData, list)]}
    /\ nextId' = nextId + 1
    /\ UNCHANGED <<phase, now, polling, list, total, listLoading, listQuery,
                   selectedData, deleteDialogVisible, listReqs, messages, issued,
                   settled, shown, clicked>>
    /\ UNCHANGED pureVars

\* (the notification moved into the finally callback)
DeleteNotify_Always(ok) == 1

\* The then-callback of deleteTask: the number of 'Task Deleted' notifications
\* shown when the request settles.
DeleteNotify(ok) == IF ok THEN 1 ELSE 0

\* (the dialog closed in the then callback only)
DeleteFinally_OnSuccess(cur, ok) == IF ok THEN <<FALSE, FALSE>> ELSE cur

\* The finally-callback of deleteTask: <<deleteDialogLoading, deleteDialogVisible>>
\* after the request settles; cur holds their values before.
DeleteFinally(cur, ok) == <<FALSE, FALSE>>

\* A delete request settles, successfully or not.
SettleDelete(r, ok) ==
    /\ r \in delReqs
    /\ delReqs' = delReqs \ {r}
    /\ messages' = messages + DeleteNotify(ok)
    /\ deleteDialogLoading' = DeleteFinally(<<deleteDialogLoading, deleteDialogVisible>>, ok)[1]
    /\ deleteDialogVisible' = DeleteFinally(<<deleteDialogLoading, deleteDialogVisible>>, ok)[2]
    /\ settled' = [op |-> "delete", id |-> r.id, page |-> 0, uuid |-> r.uuid,
                   ok |-> ok, entry |-> << >>, count |-> 0, phase |-> phase]
    /\ UNCHANGED <<phase, now, polling, list, total, listLoading, listQuery,
                   selectedData, listReqs, nextId, issued, shown, clicked>>
    /\ UNCHANGED pureVars

DeleteOk == \E r \in delReqs : SettleDelete(r, TRUE)
DeleteFail == \E r \in delReqs : SettleDelete(r, FALSE)

ViewNext ==
    \/ Created
    \/ Tick
    \/ Advance
    \/ BeforeDestroy
    \/ \E p \in 1..PageCount(total) : Pagination(p)
    \/ ListOk
    \/ ListFail
    \/ \E u \in UUIDs : HandleDelete(Row(u))
    \/ Cancel
    \/ DeleteTask
    \/ DeleteOk
    \/ DeleteFail

\* ------------------------------------------------------------ status filters
\* String(n) for an integer n: the property key `map[n]` looks up.
Digit(d) == CASE d = 0 -> "0" [] d = 1 -> "1" [] d = 2 -> "2" [] d = 3 -> "3"
              [] d = 4 -> "4" [] d = 5 -> "5" [] d = 6 -> "6" [] d = 7 -> "7"
              [] d = 8 -> "8" [] d = 9 -> "9"
RECURSIVE NatToString(_)
NatToString(n) == IF n < 10 THEN Digit(n) ELSE NatToString(n \div 10) \o Digit(n % 10)
PropertyKey(n) == IF n < 0 THEN "-" \o NatToString(-n) ELSE NatToString(n)

\* map[key] on an object literal: the own property, else undefined.
Lookup(map, key) == IF key \in DOMAIN map THEN map[key] ELSE Undefined

statusTypeMap ==
    "0" :> "info" @@ "1" :> "" @@ "2" :> "success" @@ "3" :> "danger" @@
    "4" :> "info" @@ "5" :> "warning" @@ "6" :> "danger" @@ "7" :> "warning" @@
    "8" :> "danger"

statusMap ==
    "0" :> "Scheduled" @@ "1" :> "Running" @@ "2" :> "Succeeded" @@ "3" :> "Failed" @@
    "4" :> "Deleting" @@ "5" :> "Pending" @@ "6" :> "TLE" @@ "7" :> "Waiting" @@
    "8" :> "MLE"

\* (a fallback severity for the codes the map does not hold)
statusTypeFilter_Default(code) ==
    IF PropertyKey(code) \in DOMAIN statusTypeMap THEN statusTypeMap[PropertyKey(code)] ELSE "info"

statusTypeFilter(code) == Lookup(statusTypeMap, PropertyKey(code))

statusFilter(code) == Lookup(statusMap, PropertyKey(code))

StatusCodes == (0 - MaxCode)..MaxCode

FilterInit ==
    /\ ViewInit
    /\ status \in StatusCodes
    /\ tagType = Undefined
    /\ label = Undefined
    /\ path = << >>
    /\ pathOk = FALSE
    /\ pc = "filter"

\* <el-tag :type="row.status | statusTypeFilter">{{ row.status | statusFilter }}</el-tag>
RenderStatus ==
    /\ pc = "filter"
    /\ tagType' = statusTypeFilter(status)
    /\ label' = statusFilter(status)
    /\ pc' = "done"
    /\ UNCHANGED <<status, path, pathOk>>
    /\ UNCHANGED viewVars

SpecFilter == FilterInit /\ [][RenderStatus]_vars

\* ------------------------------------------------------------ validatePath
\* /^\/?([^\\/:*?"<>|]+\/?)+$/ on a string given as its sequence of
\* characters.  A set of positions P holds the numbers of characters the
\* pattern read so far may have consumed.
Excluded == {"\\", "/", ":", "*", "?", "\"", "<", ">", "|"}   \* [^\\/:*?"<>|]

\* \/?
OptSlash(s, P) == P \cup {p + 1 : p \in {q \in P : q < Len(s) /\ s[q + 1] = "/"}}

\* [^\\/:*?"<>|]+
ClassPlus(s, P) ==
    {q \in 1..Len(s) : \E p \in P : p < q /\ \A i \in (p + 1)..q : s[i] \notin Excluded}

\* ([^\\/:*?"<>|]+\/?)
Group(s, P) == OptSlash(s, ClassPlus(s, P))

\* (...)+ : what one or more repetitions may consume, from the positions R
\* one repetition reaches.
RECURSIVE GroupPlus(_, _)
GroupPlus(s, R) ==
    LET more == R \cup Group(s, R)
    IN  IF more = R THEN R ELSE GroupPlus(s, more)

\* (the pattern without its $ anchor)
validatePath_Unanchored(p) == GroupPlus(p, Group(p, OptSlash(p, {0}))) # {}

validatePath(p) == Len(p) \in GroupPlus(p, Group(p, OptSlash(p, {0})))

Alphabet == {"*", "?", "\"", "<", ">", "|", ":", "\\", "/", "a"}
ExamplePath == <<"/", "a", "/", "b", "/", "c">>
Paths == UNION {[1..n -> Alphabet] : n \in 0..MaxLen} \cup {ExamplePath}

ValidateInit ==
    /\ ViewInit
    /\ status = 0
    /\ tagType = Undefined
    /\ label = Undefined
    /\ path \in Paths
    /\ pathOk = FALSE
    /\ pc = "validate"

ApplyValidatePath ==
    /\ pc = "validate"
    /\ pathOk' = validatePath(path)
    /\ pc' = "done"
    /\ UNCHANGED <<status, tagType, label, path>>
    /\ UNCHANGED viewVars

SpecValidate == ValidateInit /\ [][ApplyValidatePath]_vars

\* C4: for the codes 0..8 the two filters give the documented label and
\* severity; for every other integer code both give undefined.
Documented ==
    << <<"Scheduled", "info">>, <<"Running", "">>, <<"Succeeded", "success">>,
       <<"Failed", "danger">>, <<"Deleting", "info">>, <<"Pending", "warning">>,
       <<"TLE", "danger">>, <<"Waiting", "warning">>, <<"MLE", "danger">> >>
C4_StatusTable ==
    pc = "done" =>
        IF status \in 0..8
          THEN <<label, tagType>> = Documented[status + 1]
          ELSE label = Undefined /\ tagType = Undefined

\* C4 witness: the first code past the table has been rendered, with no label.
C4_Witness == pc = "done" /\ status = 9 /\ label = Undefined /\ tagType = Undefined

\* C6: validatePath accepts /a/b/c and rejects every path that contains one
\* of * ? " < > | : \ .
Rejected == {"*", "?", "\"", "<", ">", "|", ":", "\\"}
C6_ValidatePath ==
    pc = "done" =>
        /\ path = ExamplePath => pathOk
        /\ (\E i \in 1..Len(path) : path[i] \in Rejected) => ~pathOk

\* C6 witness: a path with a rejected character after a valid prefix has been
\* refused.
C6_Witness == pc = "done" /\ path = <<"/", "a", "/", "*">> /\ ~pathOk

\* ------------------------------------------------------------ properties
\* Steps named by what they change.
ListSettles == settled' # settled /\ settled'.op = "list"
DeleteSettles == settled' # settled /\ settled'.op = "delete"
FetchIssued == issued' # issued
\* exactly one new list request, for the page listQuery holds after the step
OneFetch ==
    /\ listReqs' = listReqs \cup {[id |-> nextId, page |-> listQuery'.page]}
    /\ nextId' = nextId + 1
NoFetch == listReqs' \subseteq listReqs /\ issued' = issued

\* C1: created arms the 3-second interval and issues one fetch of the current
\* page at once; every timer tick (at Interval, 2*Interval, ... while the view
\* is alive) issues one fetch of listQuery.page; beforeDestroy cancels the
\* timer, and from then on no list fetch is issued.
C1_Polling ==
    /\ [](phase = "alive" => polling # NoTimer /\ polling % Interval = 0
                              /\ now <= polling /\ polling <= now + Interval)
    /\ [](phase = "destroyed" => polling = NoTimer)
    /\ [](issued.by = "timer" => issued.at % Interval = 0 /\ issued.at >= Interval)
    /\ [][ /\ (phase = "new" /\ phase' = "alive") =>
                (polling' = now + Interval /\ OneFetch /\ listQuery' = listQuery
                 /\ issued'.by = "created")
           /\ (polling # NoTimer /\ polling' # NoTimer /\ polling' # polling) =>
                (now = polling /\ polling' = polling + Interval /\ OneFetch
                 /\ listQuery' = listQuery /\ issued'.by = "timer")
           /\ (phase = "alive" /\ now' # now) => now < polling
           /\ (phase = "alive" /\ phase' = "destroyed") => (polling' = NoTimer /\ NoFetch)
           /\ phase = "destroyed" => (phase' = "destroyed" /\ nextId' = nextId /\ NoFetch)
         ]_vars

\* C1 witness: torn down after the tick at Interval; a further interval has
\* passed and that tick's fetch is still the latest one.
C1_Witness ==
    /\ phase = "destroyed"
    /\ issued.by = "timer" /\ issued.at = Interval
    /\ now >= 2 * Interval

\* C2: when a list request settles, listLoading is false afterwards; on
\* success list and total are the response's payload.entry and payload.count;
\* on failure list and total are what they were before.
C2_GetListSettle ==
    [][ ListSettles =>
          /\ listLoading' = FALSE
          /\ settled'.ok => (list' = Some(settled'.entry) /\ total' = settled'.count)
          /\ ~settled'.ok => (list' = list /\ total' = total)
      ]_vars

\* C2 witness: a failed request has settled after a page was displayed, and
\* the page is still displayed.
C2_Witness ==
    /\ settled.op = "list" /\ ~settled.ok
    /\ list = Some(<<Row("t1"), Row("t2")>>) /\ total = 26
    /\ ~listLoading

\* C3: a confirmation (Delete in the dialog) issues exactly one delete request,
\* carrying the uuid of the row given to the latest handleDelete; when a delete
\* request settles, successfully or not, the dialog is closed and
\* deleteDialogLoading is false.
C3_DeleteFlow ==
    [][ /\ (~deleteDialogLoading /\ deleteDialogLoading') =>
             (deleteDialogVisible /\ nextId' = nextId + 1
              /\ delReqs' = delReqs \cup {[id |-> nextId, uuid |-> clicked.uuid]})
        /\ (delReqs' \ delReqs # {}) =>
             (~deleteDialogLoading /\ deleteDialogLoading'
              /\ Cardinality(delReqs' \ delReqs) = 1
              /\ \A r \in delReqs' \ delReqs : r.uuid = clicked.uuid /\ r.uuid \in UUIDs)
        /\ DeleteSettles => (~deleteDialogVisible' /\ ~deleteDialogLoading')
      ]_vars

\* C3 witness: the delete request for the second row, the row selected last,
\* has failed; the dialog is closed and the flag cleared.
C3_Witness ==
    /\ settled.op = "delete" /\ ~settled.ok /\ settled.uuid = "t2"
    /\ clicked.uuid = "t2"
    /\ ~deleteDialogVisible /\ ~deleteDialogLoading

\* C5 as stated: whenever a delete request settles, failed or not, the
\* 'Task Deleted' notification is shown, the dialog closed, the flag cleared.
C5_NotifiesOnAnySettle ==
    [][ DeleteSettles =>
          (messages' = messages + 1 /\ ~deleteDialogVisible' /\ ~deleteDialogLoading')
      ]_vars

\* C5 amended: the 'Task Deleted' notification is shown when, and only when,
\* a delete request succeeds; a failed delete shows none.  In both cases the
\* dialog is closed and deleteDialogLoading cleared.
C5_NotifiesOnSuccessOnly ==
    [][ /\ DeleteSettles =>
             /\ messages' = messages + (IF settled'.ok THEN 1 ELSE 0)
             /\ ~deleteDialogVisible' /\ ~deleteDialogLoading'
        /\ messages' # messages => (DeleteSettles /\ settled'.ok)
      ]_vars

\* C5 witness: a delete has failed and no notification was ever shown.
C5_Witness ==
    /\ settled.op = "delete" /\ ~settled.ok
    /\ messages = 0
    /\ ~deleteDialogVisible /\ ~deleteDialogLoading

\* C7: the displayed list and total are those of the last successful list
\* response to settle, whatever the order the requests were issued in.
C7_LastSettledWins ==
    /\ shown.id = 0 => (list = Null /\ total = 0)
    /\ shown.id # 0 => (list = Some(shown.entry) /\ total = shown.count)

\* C7 witness: with a request in flight, the page displayed was requested for
\* a page other than listQuery.page and before the page displayed just before.
C7_Witness ==
    /\ shown.id # 0 /\ list = Some(shown.entry)
    /\ shown.page # listQuery.page
    /\ shown.id < shown.prev
    /\ listReqs # {}

\* C8: beforeDestroy cancels the timer and leaves the requests in flight; a
\* list response that settles after it still sets list and total and clears
\* listLoading.
C8_LateResponses ==
    [][ /\ (phase = "alive" /\ phase' = "destroyed") =>
             (polling' = NoTimer /\ listReqs' = listReqs /\ delReqs' = delReqs)
        /\ (phase = "destroyed" /\ ListSettles) =>
             /\ listLoading' = FALSE
             /\ settled'.ok => (list' = Some(settled'.entry) /\ total' = settled'.count)
      ]_vars

\* C8 witness: a response that settled after teardown is displayed, and it is
\* the first one (listLoading was still set at teardown).
C8_Witness ==
    /\ phase = "destroyed"
    /\ settled.op = "list" /\ settled.ok /\ settled.phase = "destroyed"
    /\ shown.prev = 0 /\ shown.id = settled.id
    /\ list = Some(<<Row("t1")>>) /\ ~listLoading

\* C9 as stated: every fetch of the polling cycle (the first one and each
\* tick's) puts the view into the loading state, and its settling returns it
\* to idle.
C9_EveryPollLoads ==
    [][ /\ (FetchIssued /\ issued'.by \in {"created", "timer"}) => listLoading'
        /\ ListSettles => ~listLoading'
      ]_vars

\* C9 amended: only the first fetch runs in the loading state.  listLoading is
\* true from construction, no fetch changes it, the settling of any list
\* request sets it to false, and it never becomes true again.
C9_LoadsOnce ==
    /\ [](phase = "new" => listLoading)
    /\ [][ /\ FetchIssued => listLoading' = listLoading
           /\ ListSettles => ~listLoading'
           /\ listLoading' => listLoading
         ]_vars

\* C9 witness: a tick's fetch is in flight and the view is not loading.
C9_Witness ==
    /\ issued.by = "timer"
    /\ \E r \in listReqs : r.id = issued.id
    /\ ~listLoading

\* C10 as stated: when a delete request settles, selectedData.uuid is the uuid
\* the request was sent with, so the dialog it closes is its own.
C10_ClosesOwnDialog ==
    [][ DeleteSettles => selectedData.uuid = settled'.uuid ]_vars

Next == ViewNext
Spec == Init /\ [][Next]_vars
====
